---------------------------- MODULE Spec2Model ----------------------------
(***************************************************************************)
(* A model of src/app.py: the UberPuneAnalysis pipeline.                   *)
(*                                                                         *)
(*   __init__          reads the CSV and runs preprocess_data, or reports  *)
(*                     a missing file;                                     *)
(*   preprocess_data   one step per statement (lines 21..40);              *)
(*   analyze_* and generate_summary_stats: one action per method.          *)
(*                                                                         *)
(* A table cell is a record [kind, v, s]:                                  *)
(*   "text"  a well-formed literal of the CSV (v is the value it denotes), *)
(*   "junk"  a literal that parses as nothing ("not-a-date", "abc"),       *)
(*   "nan"   a missing value (NaN / NaT),                                  *)
(*   "num"   a number, "ts" a Timestamp, "str" a string (in s).            *)
(* A Timestamp's v is the number of hours since 2024-01-01 00:00, which    *)
(* was a Monday.  Floating point numbers are fixed point integers; angles  *)
(* are counted in half degrees.                                            *)
(***************************************************************************)
EXTENDS Integers, Sequences, FiniteSets, TLC

VARIABLES
    fileExists,   \* whether data_path names a readable file
    csv,          \* the rows of that file, as read_csv returns them
    hasDf,        \* whether the attribute self.df has been assigned
    df,           \* self.df: [columns : set of names, rows : sequence of rows]
    pc,           \* the statement the run is at
    exc,          \* the exception that ended the run ("" while none)
    shown,        \* what st.write has shown to the user
    called,       \* the method called last ("" before any)
    ret           \* the value that call returned

vars == <<fileExists, csv, hasDf, df, pc, exc, shown, called, ret>>

----------------------------------------------------------------------------
(* Cells *)

Num(n)  == [kind |-> "num",  v |-> n, s |-> ""]
Ts(h)   == [kind |-> "ts",   v |-> h, s |-> ""]
Text(n) == [kind |-> "text", v |-> n, s |-> ""]
Str(t)  == [kind |-> "str",  v |-> 0, s |-> t]
Junk    == [kind |-> "junk", v |-> 0, s |-> ""]
NaN     == [kind |-> "nan",  v |-> 0, s |-> ""]
ValueError == [kind |-> "ValueError", v |-> 0, s |-> ""]

IsNa(c) == c.kind = "nan"

----------------------------------------------------------------------------
(* math: sin, cos, sqrt, atan2 and radians on fixed point numbers *)

\* A float x is the integer x * Scale.
Scale == 1000

\* radians(): an angle in degrees becomes an angle in half degrees.
UnitsPerDegree == 2

\* 1000 * sin(k / 2 degrees) for k = 0 .. 180, at index k + 1.
SinTable ==
    << 0, 9, 17, 26, 35, 44, 52, 61, 70, 78, 87, 96, 105, 113, 122,
       131, 139, 148, 156, 165, 174, 182, 191, 199, 208, 216, 225, 233, 242, 250,
       259, 267, 276, 284, 292, 301, 309, 317, 326, 334, 342, 350, 358, 367, 375,
       383, 391, 399, 407, 415, 423, 431, 438, 446, 454, 462, 469, 477, 485, 492,
       500, 508, 515, 522, 530, 537, 545, 552, 559, 566, 574, 581, 588, 595, 602,
       609, 616, 623, 629, 636, 643, 649, 656, 663, 669, 676, 682, 688, 695, 701,
       707, 713, 719, 725, 731, 737, 743, 749, 755, 760, 766, 772, 777, 783, 788,
       793, 799, 804, 809, 814, 819, 824, 829, 834, 839, 843, 848, 853, 857, 862,
       866, 870, 875, 879, 883, 887, 891, 895, 899, 903, 906, 910, 914, 917, 921,
       924, 927, 930, 934, 937, 940, 943, 946, 948, 951, 954, 956, 959, 961, 964,
       966, 968, 970, 972, 974, 976, 978, 980, 982, 983, 985, 986, 988, 989, 990,
       991, 993, 994, 995, 995, 996, 997, 998, 998, 999, 999, 999, 1000, 1000, 1000,
       1000 >>

HalfTurn == 180 * UnitsPerDegree

\* sin of an angle x in half degrees, any integer.
Sin(x) ==
    LET y == x % (2 * HalfTurn)                       \* 0 .. 719
        z == IF y >= HalfTurn THEN y - HalfTurn ELSE y \* 0 .. 359
        w == IF z > HalfTurn \div 2 THEN HalfTurn - z ELSE z
        m == SinTable[w + 1]
    IN  IF y >= HalfTurn THEN -m ELSE m

Cos(x) == Sin(HalfTurn \div 2 - x)

RECURSIVE SqrtBetween(_, _, _)
SqrtBetween(n, lo, hi) ==
    IF lo = hi THEN lo
    ELSE LET mid == (lo + hi + 1) \div 2
         IN  IF mid * mid <= n THEN SqrtBetween(n, mid, hi)
             ELSE SqrtBetween(n, lo, mid - 1)

\* sqrt of n / Scale^2, as a fixed point number; n is in 0 .. Scale^2.
Sqrt(n) == SqrtBetween(n, 0, Scale)

RECURSIVE AtanBetween(_, _, _, _)
AtanBetween(y, x, lo, hi) ==
    IF lo = hi THEN lo
    ELSE LET mid == (lo + hi + 1) \div 2
         IN  IF Sin(mid) * x <= Cos(mid) * y THEN AtanBetween(y, x, mid, hi)
             ELSE AtanBetween(y, x, lo, mid - 1)

\* atan2(y, x) for y, x >= 0, in half degrees: the largest angle whose
\* tangent is at most y / x.
Atan2(y, x) == IF y = 0 THEN 0 ELSE AtanBetween(y, x, 0, HalfTurn \div 2)

----------------------------------------------------------------------------
(* calculate_distance *)

\* Radius of the Earth in kilometers
R == 6371

\* An angle of c half degrees in radians, times r: r * c * pi / 360, with
\* pi = 355 / 113.
ArcLength(r, c) == (r * c * 355) \div (113 * 180 * UnitsPerDegree)

\* haversine_a with cos(lat1) taken twice
haversine_a_one_latitude(lat1, lon1, lat2, lon2) ==
    LET dlat == lat2 - lat1
        dlon == lon2 - lon1
        sdlat == Sin(dlat \div 2)
        sdlon == Sin(dlon \div 2)
    IN  sdlat * sdlat
          + (((Cos(lat1) * Cos(lat1)) \div Scale) * (sdlon * sdlon)) \div Scale

haversine_a(lat1, lon1, lat2, lon2) ==
    LET dlat == lat2 - lat1
        dlon == lon2 - lon1
        sdlat == Sin(dlat \div 2)
        sdlon == Sin(dlon \div 2)
    IN  sdlat * sdlat
          + (((Cos(lat1) * Cos(lat2)) \div Scale) * (sdlon * sdlon)) \div Scale

\* The four arguments are cells.  math.radians of NaN is NaN, and so is all
\* that follows; math.sqrt of a negative number raises ValueError.
haversine_distance(lat1, lon1, lat2, lon2) ==
    IF IsNa(lat1) \/ IsNa(lon1) \/ IsNa(lat2) \/ IsNa(lon2) THEN NaN
    ELSE LET a == haversine_a(lat1.v * UnitsPerDegree, lon1.v * UnitsPerDegree,
                              lat2.v * UnitsPerDegree, lon2.v * UnitsPerDegree)
         IN  IF a < 0 \/ Scale * Scale - a < 0 THEN ValueError
             ELSE LET c == 2 * Atan2(Sqrt(a), Sqrt(Scale * Scale - a))
                  IN  Num(ArcLength(R, c))


----------------------------------------------------------------------------
(* pandas: Series and DataFrame *)

\* A row of a DataFrame is [index |-> its label, cells |-> column -> cell];
\* a Series is a sequence of cells, or of [key, val] pairs when it has labels.

Range(s) == {s[i] : i \in DOMAIN s}

Column(d, col) == [i \in 1..Len(d.rows) |-> d.rows[i].cells[col]]

IndexOf(d) == {d.rows[i].index : i \in 1..Len(d.rows)}

\* d[col] = values, a Series with the index of d
SetColumn(d, col, values) ==
    [columns |-> d.columns \cup {col},
     rows |-> [i \in 1..Len(d.rows) |->
                 [index |-> d.rows[i].index,
                  cells |-> (col :> values[i]) @@ d.rows[i].cells]]]

\* d.dropna(subset=cols)
Dropna(d, cols) ==
    [d EXCEPT !.rows =
        SelectSeq(d.rows, LAMBDA r : \A c \in cols : ~IsNa(r.cells[c]))]

\* pd.read_csv: the rows of the file under a RangeIndex starting at 0.
read_csv(file) ==
    [columns |-> {"pickup_datetime", "pickup_lat", "pickup_lon",
                  "dropoff_lat", "dropoff_lon", "fare_amount"},
     rows |-> [i \in 1..Len(file) |-> [index |-> i - 1, cells |-> file[i]]]]

\* pd.to_datetime(errors='coerce') of one cell
to_datetime(c) == IF c.kind = "text" THEN Ts(c.v) ELSE NaN

\* pd.to_numeric(errors='coerce') of one cell
to_numeric(c) == IF c.kind \in {"text", "num"} THEN Num(c.v) ELSE NaN

HoursPerDay == 24
DaysPerWeek == 7

\* The first day of each month of 2024, counted from 0, and the end of the year.
MonthStarts == <<0, 31, 60, 91, 121, 152, 182, 213, 244, 274, 305, 335, 366>>

days_order ==
    <<"Monday", "Tuesday", "Wednesday", "Thursday", "Friday", "Saturday", "Sunday">>

\* .dt.hour, .dt.weekday, .dt.day_name(), .dt.month; each is NaN on NaT.
dt_hour(c) == IF c.kind = "ts" THEN Num(c.v % HoursPerDay) ELSE NaN

dt_weekday(c) ==
    IF c.kind = "ts" THEN Num((c.v \div HoursPerDay) % DaysPerWeek) ELSE NaN

dt_day_name(c) ==
    IF c.kind = "ts" THEN Str(days_order[dt_weekday(c).v + 1]) ELSE NaN

dt_month(c) ==
    IF c.kind = "ts"
    THEN Num(CHOOSE m \in 1..12 :
                /\ MonthStarts[m] <= c.v \div HoursPerDay
                /\ c.v \div HoursPerDay < MonthStarts[m + 1])
    ELSE NaN

\* The order of two labels: numbers by value, strings alphabetically.
Alphabet ==
    <<"Friday", "Monday", "Saturday", "Sunday", "Thursday", "Tuesday", "Wednesday">>

Rank(c) ==
    IF c.kind = "str" THEN CHOOSE i \in DOMAIN Alphabet : Alphabet[i] = c.s
    ELSE c.v

RECURSIVE Sort(_)
Sort(s) ==
    IF s = <<>> THEN <<>>
    ELSE LET m == CHOOSE i \in DOMAIN s : \A j \in DOMAIN s : Rank(s[i]) <= Rank(s[j])
         IN  <<s[m]>> \o Sort(SubSeq(s, 1, m - 1) \o SubSeq(s, m + 1, Len(s)))

\* The distinct values of a Series in the order they are first seen, as a
\* hash table yields them.
RECURSIVE Unique(_)
Unique(s) ==
    IF s = <<>> THEN <<>>
    ELSE LET u == Unique(SubSeq(s, 1, Len(s) - 1))
         IN  IF s[Len(s)] \in Range(u) THEN u ELSE Append(u, s[Len(s)])

Count(s, x) == Cardinality({i \in DOMAIN s : s[i] = x})

Notna(s) == SelectSeq(s, LAMBDA c : ~IsNa(c))

\* Series.value_counts(): NaN is not counted.  Both callers relabel the
\* result at once, so its own order (by count) is not modelled.
value_counts(s) ==
    LET keys == Unique(Notna(s))
    IN  [i \in DOMAIN keys |-> [key |-> keys[i], val |-> Num(Count(s, keys[i]))]]

\* Series.sort_index()
sort_index(vc) ==
    LET keys == Sort([i \in DOMAIN vc |-> vc[i].key])
    IN  [i \in DOMAIN keys |->
            CHOOSE e \in Range(vc) : e.key = keys[i]]

\* Series.reindex(labels): a label the Series lacks gets NaN.
reindex(vc, labels) ==
    [i \in DOMAIN labels |->
        IF \E e \in Range(vc) : e.key = Str(labels[i])
        THEN CHOOSE e \in Range(vc) : e.key = Str(labels[i])
        ELSE [key |-> Str(labels[i]), val |-> NaN]]

\* mode without the final sort
mode_unsorted(s) ==
    LET keys == Unique(Notna(s))
    IN  SelectSeq(keys, LAMBDA k :
            \A j \in DOMAIN keys : Count(s, keys[j]) <= Count(s, k))

\* Series.mode(): the most frequent values, found by a hash table in the
\* order they are first seen, then sorted.
mode(s) ==
    LET keys == Unique(Notna(s))
        most == SelectSeq(keys, LAMBDA k :
                    \A j \in DOMAIN keys : Count(s, keys[j]) <= Count(s, k))
    IN  Sort(most)

RECURSIVE Sum(_)
Sum(s) == IF s = <<>> THEN 0 ELSE s[1].v + Sum(Tail(s))

\* Series.mean(): NaN is skipped; the mean of nothing is NaN.
mean(s) ==
    LET xs == Notna(s)
    IN  IF xs = <<>> THEN NaN ELSE Num(Sum(xs) \div Len(xs))

\* d.groupby([a, b]).size().reset_index(name='count'): one record for each
\* pair of values that occurs; a row with NaN in a or b is in no group.
groupby_size(d, a, b) ==
    LET in == SelectSeq(d.rows, LAMBDA r : ~IsNa(r.cells[a]) /\ ~IsNa(r.cells[b]))
        keys == {<<in[i].cells[a], in[i].cells[b]>> : i \in DOMAIN in}
    IN  {[pickup_lat |-> k[1], pickup_lon |-> k[2],
          count |-> Cardinality({i \in DOMAIN in :
                        <<in[i].cells[a], in[i].cells[b]>> = k})] : k \in keys}

----------------------------------------------------------------------------
(* The datasets the model is run on *)

MaxRows == 2
MaxCleanRows == 4
MaxLocRows == 12

SeqsUpTo(S, n) == UNION {[1..k -> S] : k \in 0..n}

RawRow(ts, plat, plon, dlat, dlon, fare) ==
    [pickup_datetime |-> ts, pickup_lat |-> plat, pickup_lon |-> plon,
     dropoff_lat |-> dlat, dropoff_lon |-> dlon, fare_amount |-> fare]

\* Monday 08:00, Monday 17:00, Tuesday 08:00 (January), Sunday 23:00 (February)
Stamps == {Text(8), Text(17), Text(32), Text(839)}

\* Rows with every kind of defect: a timestamp that is well formed, malformed
\* or missing, a missing pickup or dropoff coordinate, a fare that is a
\* number, malformed or missing.
DirtyRows ==
    {RawRow(ts, co[1], co[2], co[3], co[4], fare) :
        ts \in {Text(8), Junk, NaN},
        co \in {<<Num(18), Num(73), Num(19), Num(74)>>,
                <<NaN, Num(73), Num(19), Num(74)>>,
                <<Num(18), Num(73), Num(19), NaN>>},
        fare \in {Text(1000), Junk, NaN}}

\* Rows that differ in the pickup time only, one of them malformed.
CleanRows ==
    {RawRow(ts, Num(18), Num(73), Num(19), Num(74), Text(1550)) :
        ts \in Stamps \cup {Junk}}

\* Rows picked up at one of two places.
LocRows ==
    {RawRow(Text(8), Num(18), lon, Num(19), Num(74), Text(1000)) :
        lon \in {Num(73), Num(74)}}

Repeat(r, n) == [i \in 1..n |-> r]

\* Files of up to n rows in three runs: some rows at one place, then some at
\* another, then some at the first again.
RunsUpTo(S, n) ==
    LET lens == {t \in (0..n) \X (0..n) \X (0..n) : t[1] + t[2] + t[3] <= n}
    IN  {Repeat(a, t[1]) \o Repeat(b, t[2]) \o Repeat(a, t[3]) :
            a \in S, b \in S, t \in lens}

\* One row between any two points of a grid that spans the globe.
DistRows ==
    {RawRow(Text(8), Num(p[1]), Num(p[2]), Num(q[1]), Num(q[2]), Text(1000)) :
        p, q \in {-90, -45, 0, 18, 19, 90} \X {-180, 0, 73, 74, 180}}

----------------------------------------------------------------------------
(* UberPuneAnalysis.__init__ and preprocess_data *)

NotFoundMessage == "Data file not found. Please provide a valid file."

Raise(e) ==
    /\ exc' = e
    /\ pc' = "crashed"

InitWith(files) ==
    /\ fileExists \in BOOLEAN
    /\ csv \in (IF fileExists THEN files ELSE {<<>>})
    /\ hasDf = FALSE
    /\ df = [columns |-> {}, rows |-> <<>>]
    /\ pc = "read_csv"
    /\ exc = ""
    /\ shown = <<>>
    /\ called = ""
    /\ ret = <<>>

Init == InitWith(SeqsUpTo(DirtyRows, MaxRows))

\* lines 13-17: read the file; FileNotFoundError is caught and reported.
ReadCsv ==
    /\ pc = "read_csv"
    /\ IF fileExists
       THEN /\ df' = read_csv(csv)
            /\ hasDf' = TRUE
            /\ pc' = "to_datetime"
            /\ UNCHANGED shown
       ELSE /\ shown' = Append(shown, NotFoundMessage)
            /\ pc' = "ready"
            /\ UNCHANGED <<df, hasDf>>
    /\ UNCHANGED <<fileExists, csv, exc, called, ret>>

ParsedDatetime(d) ==
    SetColumn(d, "pickup_datetime",
              [i \in 1..Len(d.rows) |-> to_datetime(Column(d, "pickup_datetime")[i])])

\* line 21
ToDatetime ==
    /\ pc = "to_datetime"
    /\ df' = ParsedDatetime(df)
    /\ pc' = "dropna_datetime"
    /\ UNCHANGED <<fileExists, csv, hasDf, exc, shown, called, ret>>

\* line 24 left out
DropnaDatetimeSkipped(d) == d

DropnaDatetimeOf(d) == Dropna(d, {"pickup_datetime"})

\* line 24
DropnaDatetime ==
    /\ pc = "dropna_datetime"
    /\ df' = DropnaDatetimeOf(df)
    /\ pc' = "derive"
    /\ UNCHANGED <<fileExists, csv, hasDf, exc, shown, called, ret>>

Derived(d) ==
    LET t  == Column(d, "pickup_datetime")
        d1 == SetColumn(d,  "hour",    [i \in DOMAIN t |-> dt_hour(t[i])])
        d2 == SetColumn(d1, "day",     [i \in DOMAIN t |-> dt_day_name(t[i])])
        d3 == SetColumn(d2, "month",   [i \in DOMAIN t |-> dt_month(t[i])])
    IN  SetColumn(d3, "weekday", [i \in DOMAIN t |-> dt_weekday(t[i])])

\* lines 27-30
Derive ==
    /\ pc = "derive"
    /\ df' = Derived(df)
    /\ pc' = "dropna_coords"
    /\ UNCHANGED <<fileExists, csv, hasDf, exc, shown, called, ret>>

CoordColumns == {"pickup_lat", "pickup_lon", "dropoff_lat", "dropoff_lon"}

\* line 33 with the pickup columns only
DropnaPickupOnly(d) == Dropna(d, {"pickup_lat", "pickup_lon"})

DropnaCoordsOf(d) == Dropna(d, CoordColumns)

\* line 33
DropnaCoords ==
    /\ pc = "dropna_coords"
    /\ df' = DropnaCoordsOf(df)
    /\ pc' = "distance"
    /\ UNCHANGED <<fileExists, csv, hasDf, exc, shown, called, ret>>

\* lines 54-57: the distance of every row, from its pickup to its dropoff.
\* Of a frame of no rows, apply(axis=1) yields a Series of no values.
calculate_distance(d) ==
    [i \in 1..Len(d.rows) |->
        haversine_distance(d.rows[i].cells["pickup_lat"], d.rows[i].cells["pickup_lon"],
                           d.rows[i].cells["dropoff_lat"], d.rows[i].cells["dropoff_lon"])]

\* line 36: an exception of haversine_distance leaves preprocess_data and
\* __init__, which catches FileNotFoundError only.
CalculateDistance ==
    /\ pc = "distance"
    /\ IF ValueError \in Range(calculate_distance(df))
       THEN /\ Raise("ValueError")
            /\ UNCHANGED df
       ELSE /\ df' = SetColumn(df, "distance", calculate_distance(df))
            /\ pc' = "to_numeric"
            /\ UNCHANGED exc
    /\ UNCHANGED <<fileExists, csv, hasDf, shown, called, ret>>

NumericFare(d) ==
    SetColumn(d, "fare_amount",
              [i \in 1..Len(d.rows) |-> to_numeric(Column(d, "fare_amount")[i])])

\* line 39
ToNumeric ==
    /\ pc = "to_numeric"
    /\ df' = NumericFare(df)
    /\ pc' = "dropna_fare"
    /\ UNCHANGED <<fileExists, csv, hasDf, exc, shown, called, ret>>

DropnaFareOf(d) == Dropna(d, {"fare_amount"})

\* line 40: preprocess_data and __init__ return.
DropnaFare ==
    /\ pc = "dropna_fare"
    /\ df' = DropnaFareOf(df)
    /\ pc' = "ready"
    /\ UNCHANGED <<fileExists, csv, hasDf, exc, shown, called, ret>>

----------------------------------------------------------------------------
(* The methods main calls on the analyzer.  Each reads self.df first, which  *)
(* raises AttributeError when __init__ never assigned it.  An exception is   *)
(* caught nowhere, so it ends the run.  The figure or map a method returns   *)
(* is modelled by the data it draws.                                         *)

Returns(value) ==
    /\ ret' = value
    /\ UNCHANGED <<pc, exc>>

Raises(e) ==
    /\ Raise(e)
    /\ UNCHANGED ret

\* line 60
hourly_rides(d) == sort_index(value_counts(Column(d, "hour")))

\* lines 59-68
AnalyzePeakHours ==
    /\ pc = "ready"
    /\ called' = "analyze_peak_hours"
    /\ IF ~hasDf THEN Raises("AttributeError") ELSE Returns(hourly_rides(df))
    /\ UNCHANGED <<fileExists, csv, hasDf, df, shown>>

\* weekly_rides with a days_order that lacks Sunday
weekly_rides_without_sunday(d) ==
    reindex(value_counts(Column(d, "day")), SubSeq(days_order, 1, Len(days_order) - 1))

\* lines 71-72
weekly_rides(d) == reindex(value_counts(Column(d, "day")), days_order)

\* lines 70-80
AnalyzeWeeklyPattern ==
    /\ pc = "ready"
    /\ called' = "analyze_weekly_pattern"
    /\ IF ~hasDf THEN Raises("AttributeError") ELSE Returns(weekly_rides(df))
    /\ UNCHANGED <<fileExists, csv, hasDf, df, shown>>

\* line 89
PopularThreshold == 10

\* popular_locations with >= for >
popular_locations_from_threshold(d) ==
    {g \in groupby_size(d, "pickup_lat", "pickup_lon") : g.count >= PopularThreshold}

\* lines 88-89
popular_locations(d) ==
    {g \in groupby_size(d, "pickup_lat", "pickup_lon") : g.count > PopularThreshold}

\* lines 82-112: one marker for each popular location.  The address of the
\* popup comes from the network and is left out.
AnalyzePopularLocations ==
    /\ pc = "ready"
    /\ called' = "analyze_popular_locations"
    /\ IF ~hasDf THEN Raises("AttributeError") ELSE Returns(popular_locations(df))
    /\ UNCHANGED <<fileExists, csv, hasDf, df, shown>>

\* Approximation: 20 km/h average speed
AverageSpeed == 20
MinutesPerHour == 60

\* line 115: distance / 20 * 60 of one cell
trip_duration(distance) ==
    IF IsNa(distance) THEN NaN
    ELSE Num((distance.v * MinutesPerHour) \div AverageSpeed)

\* line 115
trip_durations(d) ==
    [i \in 1..Len(d.rows) |-> trip_duration(Column(d, "distance")[i])]

\* lines 115-116
WithTripDuration(d) == SetColumn(d, "trip_duration", trip_durations(d))

\* lines 114-122
AnalyzeTripDurations ==
    /\ pc = "ready"
    /\ called' = "analyze_trip_durations"
    /\ IF ~hasDf
       THEN /\ Raises("AttributeError")
            /\ UNCHANGED df
       ELSE /\ df' = WithTripDuration(df)
            /\ Returns(Column(df', "trip_duration"))
    /\ UNCHANGED <<fileExists, csv, hasDf, shown>>

\* lines 124-130
AnalyzeFareDistribution ==
    /\ pc = "ready"
    /\ called' = "analyze_fare_distribution"
    /\ IF ~hasDf THEN Raises("AttributeError")
       ELSE Returns(Column(df, "fare_amount"))
    /\ UNCHANGED <<fileExists, csv, hasDf, df, shown>>

\* lines 137-138: .iloc[0] of an empty Series raises IndexError.
ModeIsEmpty(d) ==
    \/ mode(Column(d, "hour")) = <<>>
    \/ mode(Column(d, "day")) = <<>>

busiest_hour(d) == mode(Column(d, "hour"))[1]

busiest_day(d) == mode(Column(d, "day"))[1]

\* lines 133-139
summary_stats(d) ==
    [total_rides      |-> Len(d.rows),
     average_fare     |-> mean(Column(d, "fare_amount")),
     average_distance |-> mean(Column(d, "distance")),
     busiest_hour     |-> busiest_hour(d),
     busiest_day      |-> busiest_day(d)]

\* lines 132-139
GenerateSummaryStats ==
    /\ pc = "ready"
    /\ called' = "generate_summary_stats"
    /\ IF ~hasDf THEN Raises("AttributeError")
       ELSE IF ModeIsEmpty(df) THEN Raises("IndexError")
       ELSE Returns(summary_stats(df))
    /\ UNCHANGED <<fileExists, csv, hasDf, df, shown>>

----------------------------------------------------------------------------

Next ==
    \/ ReadCsv
    \/ ToDatetime
    \/ DropnaDatetime
    \/ Derive
    \/ DropnaCoords
    \/ CalculateDistance
    \/ ToNumeric
    \/ DropnaFare
    \/ GenerateSummaryStats
    \/ AnalyzePeakHours
    \/ AnalyzeWeeklyPattern
    \/ AnalyzePopularLocations
    \/ AnalyzeTripDurations
    \/ AnalyzeFareDistribution

\* Datasets of rows with defects.
Spec == Init /\ [][Next]_vars

\* Datasets whose rows differ in the pickup time.
InitClean == InitWith(SeqsUpTo(CleanRows, MaxCleanRows))
SpecClean == InitClean /\ [][Next]_vars

\* Datasets with many rows at few places.
InitLoc == InitWith(RunsUpTo(LocRows, MaxLocRows))
SpecLoc == InitLoc /\ [][Next]_vars

\* Datasets of one row between two points of the globe.
InitDist == InitWith({<<r>> : r \in DistRows})
SpecDist == InitDist /\ [][Next]_vars

----------------------------------------------------------------------------
(* Properties *)

Ready == pc = "ready" /\ hasDf

Returned(method) == called = method /\ exc = ""

\* What a row of the file is, whatever the pipeline makes of it.
TimestampParses(raw) == raw["pickup_datetime"].kind = "text"
CoordinatesPresent(raw) == \A c \in CoordColumns : raw[c].kind = "num"
FareParses(raw) == raw["fare_amount"].kind = "text"

Passes(raw) == TimestampParses(raw) /\ CoordinatesPresent(raw) /\ FareParses(raw)

\* The row of the file a row of the DataFrame comes from.
RawOf(r) == csv[r.index + 1]

\* C1: after preprocess_data a row of the file is in the cleaned dataset if
\* and only if its timestamp parses, its four coordinates are present and its
\* fare parses; each such row is there once, and the number of rows removed
\* is the number of rows that fail one of the three tests.
C1_RetainedIffValid ==
    Ready =>
        /\ IndexOf(df) = {i - 1 : i \in {j \in 1..Len(csv) : Passes(csv[j])}}
        /\ Len(df.rows) = Cardinality(IndexOf(df))
        /\ Len(csv) - Len(df.rows)
             = Cardinality({j \in 1..Len(csv) : ~Passes(csv[j])})

C1_Witness ==
    /\ Ready
    /\ Len(df.rows) = 1
    /\ \E j \in 1..Len(csv) : ~TimestampParses(csv[j]) /\ FareParses(csv[j])

\* C2: when the file cannot be opened, the user is told so and no later step
\* of the run raises an error.
C2_MissingFileIsHarmless ==
    (~fileExists /\ pc # "read_csv") =>
        /\ shown = <<NotFoundMessage>>
        /\ exc = ""

\* C3: on a cleaned dataset of zero rows generate_summary_stats does not
\* raise and returns total_rides = 0.
C3_EmptySummary ==
    (called = "generate_summary_stats" /\ hasDf /\ Len(df.rows) = 0) =>
        /\ exc = ""
        /\ ret.total_rides = 0

\* Series.sum() of the values of a labelled Series: NaN is skipped.
Total(series) == Sum(Notna([i \in DOMAIN series |-> series[i].val]))

\* C4: the counts per hour sum to the number of rows of the cleaned dataset,
\* and so do the counts per day name after re-indexing to Monday..Sunday.
C4_CountsSumToSize ==
    /\ Returned("analyze_peak_hours") => Total(ret) = Len(df.rows)
    /\ Returned("analyze_weekly_pattern") => Total(ret) = Len(df.rows)

C4_Witness ==
    /\ Returned("analyze_weekly_pattern")
    /\ Len(df.rows) >= 3
    /\ Len(csv) > Len(df.rows)
    /\ Cardinality(Range(Column(df, "day"))) >= 2

\* C5: the weekly distribution has the seven entries Monday .. Sunday in
\* that order, and a day of no record is reported with the count zero.
C5_AbsentDayIsZero ==
    Returned("analyze_weekly_pattern") =>
        /\ Len(ret) = Len(days_order)
        /\ \A i \in DOMAIN ret :
              /\ ret[i].key = Str(days_order[i])
              /\ ret[i].val = Num(Count(Column(df, "day"), Str(days_order[i])))

\* The number of rows picked up at (lat, lon).
PickedUpAt(lat, lon) ==
    Cardinality({i \in 1..Len(df.rows) :
        /\ df.rows[i].cells["pickup_lat"] = lat
        /\ df.rows[i].cells["pickup_lon"] = lon})

\* C6: the popular locations are exactly the (pickup_lat, pickup_lon) pairs
\* of more than 10 records, each with its number of records.
C6_PopularIffMoreThanTen ==
    Returned("analyze_popular_locations") =>
        /\ \A g \in ret :
              /\ g.count > 10
              /\ g.count = PickedUpAt(g.pickup_lat, g.pickup_lon)
        /\ \A i \in 1..Len(df.rows) :
              LET lat == df.rows[i].cells["pickup_lat"]
                  lon == df.rows[i].cells["pickup_lon"]
              IN  PickedUpAt(lat, lon) > 10 =>
                      \E g \in ret : g.pickup_lat = lat /\ g.pickup_lon = lon

C6_Witness ==
    /\ Returned("analyze_popular_locations")
    /\ Cardinality(ret) = 1
    /\ \E i \in 1..Len(df.rows) :
          PickedUpAt(df.rows[i].cells["pickup_lat"],
                     df.rows[i].cells["pickup_lon"]) <= 10

\* C7: once preprocessing has finished no operation adds, removes or changes
\* a row or a field of the dataset.
C7_ReadOnlyAfterPreprocessing == [][Ready => df' = df]_vars

Permuted(d, p) == [d EXCEPT !.rows = [i \in 1..Len(d.rows) |-> d.rows[p[i]]]]

HourCount(h) == Count(Column(df, "hour"), Num(h))

\* C8: on a non-empty cleaned dataset busiest_hour is an hour of maximal
\* count, the smallest of them, and the same for every order of the rows.
C8_BusiestHour ==
    (Returned("generate_summary_stats") /\ Len(df.rows) > 0) =>
        /\ ret.busiest_hour.kind = "num"
        /\ HourCount(ret.busiest_hour.v) > 0
        /\ \A h \in 0..(HoursPerDay - 1) :
              /\ HourCount(h) <= HourCount(ret.busiest_hour.v)
              /\ HourCount(h) = HourCount(ret.busiest_hour.v)
                    => ret.busiest_hour.v <= h
        /\ \A p \in Permutations(1..Len(df.rows)) :
              busiest_hour(Permuted(df, p)) = ret.busiest_hour

C8_Witness ==
    /\ Returned("generate_summary_stats")
    /\ Len(df.rows) >= 3
    /\ df.rows[1].cells["hour"] = Num(17)
    /\ HourCount(17) = HourCount(8)
    /\ ret.busiest_hour = Num(8)

\* C9: the distance is the same in both directions, zero between a point and
\* itself, and never negative.
C9_Symmetric ==
    "distance" \in df.columns =>
        \A i \in 1..Len(df.rows) :
            LET c == df.rows[i].cells
            IN  /\ c["distance"]
                     = haversine_distance(c["dropoff_lat"], c["dropoff_lon"],
                                          c["pickup_lat"], c["pickup_lon"])
                /\ (c["pickup_lat"] = c["dropoff_lat"]
                      /\ c["pickup_lon"] = c["dropoff_lon"])
                     => c["distance"] = Num(0)
                /\ c["distance"].kind = "num"
                /\ c["distance"].v >= 0

C9_Witness ==
    /\ "distance" \in df.columns
    /\ \E i \in 1..Len(df.rows) :
          LET c == df.rows[i].cells
          IN  /\ c["pickup_lat"] # c["dropoff_lat"]
              /\ c["pickup_lon"] # c["dropoff_lon"]
              /\ c["distance"].v > 0

DerivedColumns == {"hour", "day", "month", "weekday"}

C10_State ==
    /\ pc = "distance" =>
          \A i \in 1..Len(df.rows) :
              /\ df.rows[i].cells["pickup_datetime"].kind = "ts"
              /\ \A c \in CoordColumns : ~IsNa(df.rows[i].cells[c])
    /\ "hour" \in df.columns =>
          \A i \in 1..Len(df.rows) : df.rows[i].cells["pickup_datetime"].kind = "ts"
    /\ "distance" \in df.columns =>
          /\ DerivedColumns \subseteq df.columns
          /\ \A i \in 1..Len(df.rows) :
                \A c \in CoordColumns : ~IsNa(df.rows[i].cells[c])
    /\ (\E i \in 1..Len(df.rows) : df.rows[i].cells["fare_amount"].kind = "num")
          => "distance" \in df.columns
    /\ Ready =>
          \A i \in 1..Len(df.rows) :
              /\ \A c \in DerivedColumns : ~IsNa(df.rows[i].cells[c])
              /\ df.rows[i].cells["distance"].kind = "num"
              /\ df.rows[i].cells["distance"]
                   = haversine_distance(RawOf(df.rows[i])["pickup_lat"],
                                        RawOf(df.rows[i])["pickup_lon"],
                                        RawOf(df.rows[i])["dropoff_lat"],
                                        RawOf(df.rows[i])["dropoff_lon"])

C10_Step ==
    hasDf => /\ IndexOf(df') \subseteq IndexOf(df)
             /\ Len(df'.rows) <= Len(df.rows)

\* C10: preprocess_data filters on the timestamp, derives hour, day, month
\* and weekday, filters on the coordinates, computes the distance and filters
\* on the fare, in this order: the distance is computed only for rows with a
\* parsed timestamp and four coordinates, no step adds a row or brings one
\* back, and every row of the cleaned dataset has its hour, day, month and
\* weekday and the distance of its own coordinates.
C10_StepsInOrder == []C10_State /\ [][C10_Step]_vars

C10_Witness ==
    /\ Ready
    /\ Len(df.rows) >= 1
    /\ Len(csv) > Len(df.rows)
=============================================================================
